---------------------------- MODULE Spec2Model ----------------------------
(***************************************************************************)
(* Model of the tsurphu-lab repository:                                    *)
(*   - tsurphu/calendario/backend_henning.py  (HenningBackend skeleton)     *)
(*   - tsurphu/astro/coords.py                (normalize_deg)               *)
(*   - tsurphu/scripts/ephemeris_snapshot.py  (tithi, jd_from_datetime,     *)
(*                                             fetch_body)                  *)
(*   - tsurphu/cielo/m1_cielo.py              (calcular_du)                 *)
(*   - tsurphu/integraciones/stellarium_rc.py (RemoteControl HTTP client)   *)
(*   - src/orchestration/cli.py               (tsurphu command line)        *)
(*                                                                         *)
(* Each subsystem has its own specification (SpecCal, SpecDeg, SpecDu,      *)
(* SpecRC, SpecCli, SpecRun); the variables of the other subsystems stay at *)
(* their initial values.                                                    *)
(***************************************************************************)
EXTENDS Integers, Sequences, FiniteSets

VARIABLES
    epoch_du,     \* EPOCH_TSURPHU.du_tibetano: None or Some(days)
    cal_call,     \* last call made on a HenningBackend: [op, arg, ret]
    deg_in,       \* arguments of the next call: <<deg>> or <<moon_lon, sun_lon>>
    deg_call,     \* last call of normalize_deg / compute_tithi: [op, arg, ret]
    dt,           \* a UTC instant: [year, month, day, hour, minute, second]
    ts,           \* dt.timestamp(), in ticks of 1/TicksPerDay day
    du_now,       \* calcular_du(dt), in ticks
    du_prev,      \* calcular_du of the instant before the last step
    du_step,      \* last step of the clock: "init", "time" or "day"
    days_run,     \* civil days the clock has advanced
    rc_call,      \* last call on the Stellarium client / fetch_body:
                  \* [op, env, reqs, result, ecl]
    cli_call,     \* last call of _normalize_tibetan_year_json: [op, arg, ret]
    cli_run,      \* last run of the tsurphu command line:
                  \* [argv, ty, computed, exit, out]
    run_pc,       \* position of ephemeris_snapshot.main
    run_log,      \* the HTTP requests main has issued, in order
    run_status,   \* status returned by c.status() or {}
    run_sun,      \* fetch_body(c, "Sun", jd)
    run_moon,     \* fetch_body(c, "Moon", jd)
    run_out       \* what main printed: None, or Some(output)

calVars == <<epoch_du, cal_call>>

degVars == <<deg_in, deg_call>>

duVars == <<dt, ts, du_now, du_prev, du_step, days_run>>

rcVars == <<rc_call>>

cliVars == <<cli_call, cli_run>>

runVars == <<run_pc, run_log, run_status, run_sun, run_moon, run_out>>

vars == <<epoch_du, cal_call, deg_in, deg_call, dt, ts, du_now, du_prev,
          du_step, days_run, rc_call, cli_call, cli_run, run_pc, run_log,
          run_status, run_sun, run_moon, run_out>>

(***************************************************************************)
(* Python's Optional values: None is the empty tuple, a present value x is  *)
(* the one-element tuple <<x>>, so that None differs from every number,     *)
(* 0 included.                                                              *)
(***************************************************************************)
None == <<>>

Some(x) == <<x>>

(***************************************************************************)
(* Bounds of the calendar model: DU values and epoch values, in whole days. *)
(***************************************************************************)
MaxDu == 4

MaxEpochDu == 2

DuValues == (0 - MaxDu)..MaxDu

EpochValues == {None} \cup {Some(e) : e \in (0 - MaxEpochDu)..MaxEpochDu}

NoCall == [op |-> "none", arg |-> None, ret |-> None]

(***************************************************************************)
(* HenningBackend._dias_desde_epoch: 0.0 while the epoch has no DU, else    *)
(* du_tibetano - EPOCH_TSURPHU.du_tibetano.                                 *)
(***************************************************************************)
dias_desde_epoch_passthrough(epoch, du_tibetano) ==
    IF epoch = None THEN du_tibetano ELSE du_tibetano - epoch[1]

dias_desde_epoch(epoch, du_tibetano) ==
    IF epoch = None THEN 0 ELSE du_tibetano - epoch[1]

(***************************************************************************)
(* HenningBackend._resolver_anio_mes_dia: the skeleton returns (0, 0, 0)    *)
(* for every offset, whatever the epoch.                                    *)
(***************************************************************************)
resolver_anio_mes_dia(dias) == <<0, 0, 0>>

(***************************************************************************)
(* HenningBackend.from_du_tibetano: a zero year, month or day becomes None  *)
(* in the TibetanDateBasic it returns.                                      *)
(***************************************************************************)
from_du_tibetano_keep_zero(epoch, du_tibetano) ==
    LET amd == resolver_anio_mes_dia(dias_desde_epoch(epoch, du_tibetano))
    IN  [du_tibetano   |-> du_tibetano,
         anio_tibetano |-> Some(amd[1]),
         mes_lunar     |-> Some(amd[2]),
         dia_lunar     |-> Some(amd[3])]

from_du_tibetano(epoch, du_tibetano) ==
    LET dias == dias_desde_epoch(epoch, du_tibetano)
        amd  == resolver_anio_mes_dia(dias)
        anio == amd[1]
        mes  == amd[2]
        dia  == amd[3]
    IN  [du_tibetano   |-> du_tibetano,
         anio_tibetano |-> IF anio # 0 THEN Some(anio) ELSE None,
         mes_lunar     |-> IF mes # 0 THEN Some(mes) ELSE None,
         dia_lunar     |-> IF dia # 0 THEN Some(dia) ELSE None]

IdleCal ==
    /\ epoch_du = None
    /\ cal_call = NoCall

IdleDeg ==
    /\ deg_in = None
    /\ deg_call = NoCall

IdleRC == rc_call = NoCall

IdleCli ==
    /\ cli_call = NoCall
    /\ cli_run = NoCall

IdleRun ==
    /\ run_pc = "idle"
    /\ run_log = <<>>
    /\ run_status = None
    /\ run_sun = None
    /\ run_moon = None
    /\ run_out = None

IdleDu ==
    /\ dt = None
    /\ ts = 0
    /\ du_now = 0
    /\ du_prev = 0
    /\ du_step = "init"
    /\ days_run = 0

InitCal ==
    /\ epoch_du \in EpochValues
    /\ cal_call = NoCall
    /\ IdleDeg
    /\ IdleDu
    /\ IdleRC
    /\ IdleCli
    /\ IdleRun

CallDiasDesdeEpoch ==
    /\ \E du \in DuValues :
          cal_call' = [op |-> "dias_desde_epoch", arg |-> du,
                       ret |-> dias_desde_epoch(epoch_du, du)]
    /\ UNCHANGED <<epoch_du, degVars, duVars, rcVars, cliVars, runVars>>

CallResolver ==
    /\ \E dias \in DuValues :
          cal_call' = [op |-> "resolver_anio_mes_dia", arg |-> dias,
                       ret |-> resolver_anio_mes_dia(dias)]
    /\ UNCHANGED <<epoch_du, degVars, duVars, rcVars, cliVars, runVars>>

CallFromDu ==
    /\ \E du \in DuValues :
          cal_call' = [op |-> "from_du_tibetano", arg |-> du,
                       ret |-> from_du_tibetano(epoch_du, du)]
    /\ UNCHANGED <<epoch_du, degVars, duVars, rcVars, cliVars, runVars>>

NextCal ==
    \/ CallDiasDesdeEpoch
    \/ CallResolver
    \/ CallFromDu

SpecCal == InitCal /\ [][NextCal]_vars

Uncalibrated == epoch_du = None

\* C1: with the epoch uncalibrated, from_du_tibetano(du) returns year, month
\* and day all None (never 0) and echoes the input du in du_tibetano.
C1_UnresolvedFields ==
    (Uncalibrated /\ cal_call.op = "from_du_tibetano") =>
        /\ cal_call.ret.anio_tibetano = None
        /\ cal_call.ret.mes_lunar = None
        /\ cal_call.ret.dia_lunar = None
        /\ cal_call.ret.anio_tibetano # Some(0)
        /\ cal_call.ret.mes_lunar # Some(0)
        /\ cal_call.ret.dia_lunar # Some(0)
        /\ cal_call.ret.du_tibetano = cal_call.arg

C1_Witness ==
    /\ Uncalibrated
    /\ cal_call.op = "from_du_tibetano"
    /\ cal_call.arg = 3
    /\ cal_call.ret.anio_tibetano = None

C3_ResolverFailsClosed ==
    (Uncalibrated /\ cal_call.op = "resolver_anio_mes_dia") =>
        cal_call.ret # <<0, 0, 0>>

(***************************************************************************)
(* Binary floating point.  Degrees are Python floats; the model keeps the   *)
(* structure of IEEE-754 arithmetic (a significand of MantBits bits,        *)
(* round-to-nearest-even after every inexact operation) at a reduced        *)
(* precision: a value is an integer number of degrees m * 2^j with          *)
(* m < 2^MantBits, so 0..63 are all floats, 64..126 the even numbers,       *)
(* 128..252 the multiples of 4, 256..504 the multiples of 8 (360 = 45 * 8   *)
(* is a float).  Python's double has 53 bits and the same structure: near   *)
(* 360 its spacing is 2^-44, and a value below half of that is absorbed     *)
(* by an addition to 360.0 just as 1 to 3 degrees are here.                 *)
(***************************************************************************)
MantBits == 6

RECURSIVE FloatSpacing(_)
FloatSpacing(a) == IF a < 2^MantBits THEN 1 ELSE 2 * FloatSpacing(a \div 2)

RoundAbs(a) ==
    LET s == FloatSpacing(a)
        q == a \div s
        r == a % s
    IN  IF 2 * r < s THEN q * s
        ELSE IF 2 * r > s THEN (q + 1) * s
        ELSE IF q % 2 = 0 THEN q * s ELSE (q + 1) * s

FRound(n) == IF n < 0 THEN 0 - RoundAbs(0 - n) ELSE RoundAbs(n)

IsFloat(n) == FRound(n) = n

FAdd(a, b) == FRound(a + b)

FSub(a, b) == FRound(a - b)

\* C fmod: exact, with the sign of the dividend.
CFmod(x, y) ==
    LET ay == IF y < 0 THEN 0 - y ELSE y
    IN  IF x < 0 THEN 0 - ((0 - x) % ay) ELSE x % ay

\* Python's float %: fmod, then the divisor is added (a rounded float
\* addition) when the remainder is nonzero and its sign differs from the
\* divisor's.
PyFloatMod(vx, wx) ==
    LET mod == CFmod(vx, wx)
    IN  IF mod # 0
        THEN IF (wx < 0) # (mod < 0) THEN FAdd(mod, wx) ELSE mod
        ELSE 0

\* Python's float // for a dividend >= 0 and a divisor > 0.
PyFloatFloorDiv(vx, wx) == (vx - CFmod(vx, wx)) \div wx

(***************************************************************************)
(* coords.normalize_deg                                                     *)
(***************************************************************************)
normalize_deg(deg) ==
    LET d == PyFloatMod(deg, 360)
    IN  IF d < 0 THEN FAdd(d, 360) ELSE d

(***************************************************************************)
(* ephemeris_snapshot.compute_tithi                                         *)
(***************************************************************************)
compute_tithi(moon_lon, sun_lon) ==
    LET delta == normalize_deg(FSub(moon_lon, sun_lon))
        tithi == PyFloatFloorDiv(delta, 12) + 1
    IN  [delta_deg |-> delta, tithi |-> tithi]

MaxDeg == 800

MaxLon == 400

DegValues == {n \in (0 - MaxDeg)..MaxDeg : IsFloat(n)}

LonValues == {n \in (0 - MaxLon)..MaxLon : IsFloat(n)}

InitDeg ==
    /\ IdleCal
    /\ deg_in \in {<<x>> : x \in DegValues} \cup (LonValues \X LonValues)
    /\ deg_call = NoCall
    /\ IdleDu
    /\ IdleRC
    /\ IdleCli
    /\ IdleRun

CallNormalizeDeg ==
    /\ deg_call = NoCall
    /\ Len(deg_in) = 1
    /\ deg_call' = [op |-> "normalize_deg", arg |-> deg_in[1],
                    ret |-> normalize_deg(deg_in[1])]
    /\ UNCHANGED <<deg_in, calVars, duVars, rcVars, cliVars, runVars>>

CallComputeTithi ==
    /\ deg_call = NoCall
    /\ Len(deg_in) = 2
    /\ deg_call' = [op |-> "compute_tithi", arg |-> deg_in,
                    ret |-> compute_tithi(deg_in[1], deg_in[2])]
    /\ UNCHANGED <<deg_in, calVars, duVars, rcVars, cliVars, runVars>>

NextDeg ==
    \/ CallNormalizeDeg
    \/ CallComputeTithi

SpecDeg == InitDeg /\ [][NextDeg]_vars

\* C4: for every pair of longitudes compute_tithi returns delta_deg in
\* [0, 360) and tithi = floor(delta_deg / 12) + 1 in 1..30; equal longitudes
\* give tithi 1, a Moon leading the Sun by exactly 180 degrees gives tithi 16.
C4_TithiInRange ==
    (deg_call.op = "compute_tithi") =>
        /\ deg_call.ret.delta_deg >= 0
        /\ deg_call.ret.delta_deg < 360
        /\ deg_call.ret.tithi = (deg_call.ret.delta_deg \div 12) + 1
        /\ deg_call.ret.tithi \in 1..30
        /\ (deg_call.arg[1] = deg_call.arg[2]) => deg_call.ret.tithi = 1
        /\ (deg_call.arg[1] - deg_call.arg[2] = 180) => deg_call.ret.tithi = 16

\* C5: normalize_deg(x) is in [0, 360) for every x and is idempotent.  (The
\* claim's congruence modulo 360 is left out: this weaker statement already
\* fails.)
C5_NormalizeInRangeIdempotent ==
    (deg_call.op = "normalize_deg") =>
        /\ deg_call.ret >= 0
        /\ deg_call.ret < 360
        /\ normalize_deg(deg_call.ret) = deg_call.ret

(***************************************************************************)
(* Julian Day engine.  Days are counted in ticks of 1/TicksPerDay day; the  *)
(* instants of the model lie on that grid (TimesOfDay), where every double  *)
(* the code computes is exact, so the integer arithmetic below is the       *)
(* code's arithmetic.                                                       *)
(***************************************************************************)
TicksPerDay == 64

SecondsPerDay == 86400

SecondsPerTick == SecondsPerDay \div TicksPerDay

\* 2 * 2440587.5, the Julian Day of the Unix epoch, doubled.
UnixEpochJdTwice == 4881175

\* 2 * 1524.5, the constant of the Julian Day formula, doubled.
MeeusOffsetTwice == 3049

(***************************************************************************)
(* ephemeris_snapshot.jd_from_datetime: timestamp / 86400.0 + 2440587.5.    *)
(* The timestamp is held in ticks, so timestamp / 86400.0 days is           *)
(* timestamp_ticks ticks.                                                   *)
(***************************************************************************)
jd_from_datetime_noon(timestamp) ==
    timestamp + ((UnixEpochJdTwice + 1) * TicksPerDay) \div 2

jd_from_datetime(timestamp) ==
    timestamp + (UnixEpochJdTwice * TicksPerDay) \div 2

(***************************************************************************)
(* m1_cielo.calcular_du on the fields of a UTC instant.                     *)
(*   365.25 * n  = 1461 * n / 4       30.6001 * n = 306001 * n / 10000      *)
(***************************************************************************)
calcular_du_no_shift(instante_utc) ==
    LET frac_dia == ((instante_utc.hour * 3600 + instante_utc.minute * 60
                      + instante_utc.second) * TicksPerDay) \div (24 * 3600)
        d    == instante_utc.day * TicksPerDay + frac_dia
        anio == instante_utc.year
        mes  == instante_utc.month
        A    == anio \div 100
        B    == 2 - A + (A \div 4)
    IN  ((1461 * (anio + 4716)) \div 4 + (306001 * (mes + 1)) \div 10000 + B)
            * TicksPerDay
        + d - (MeeusOffsetTwice * TicksPerDay) \div 2

calcular_du(instante_utc) ==
    LET frac_dia == ((instante_utc.hour * 3600 + instante_utc.minute * 60
                      + instante_utc.second) * TicksPerDay) \div (24 * 3600)
        d    == instante_utc.day * TicksPerDay + frac_dia
        anio == IF instante_utc.month <= 2
                THEN instante_utc.year - 1 ELSE instante_utc.year
        mes  == IF instante_utc.month <= 2
                THEN instante_utc.month + 12 ELSE instante_utc.month
        A    == anio \div 100
        B    == 2 - A + (A \div 4)
    IN  ((1461 * (anio + 4716)) \div 4 + (306001 * (mes + 1)) \div 10000 + B)
            * TicksPerDay
        + d - (MeeusOffsetTwice * TicksPerDay) \div 2

(***************************************************************************)
(* The instants: Python datetimes in UTC.  IsLeap, DaysInMonth and NextDay  *)
(* are datetime's proleptic Gregorian calendar (t + timedelta(days=1));     *)
(* Anchors are midnights with their datetime.timestamp(), in ticks.         *)
(***************************************************************************)
IsLeap(y) == (y % 4 = 0 /\ y % 100 # 0) \/ y % 400 = 0

DaysInMonth(y, m) ==
    IF m = 2 THEN (IF IsLeap(y) THEN 29 ELSE 28)
    ELSE IF m \in {4, 6, 9, 11} THEN 30 ELSE 31

NextDay(t) ==
    IF t.day < DaysInMonth(t.year, t.month) THEN [t EXCEPT !.day = @ + 1]
    ELSE IF t.month < 12 THEN [t EXCEPT !.month = @ + 1, !.day = 1]
    ELSE [t EXCEPT !.year = @ + 1, !.month = 1, !.day = 1]

TimesOfDay == << <<0, 0, 0>>, <<1, 7, 30>>, <<12, 0, 0>>, <<22, 30, 0>> >>

TodTicks(tod) == (tod[1] * 3600 + tod[2] * 60 + tod[3]) \div SecondsPerTick

TodOf(t) == <<t.hour, t.minute, t.second>>

WithTod(t, tod) ==
    [t EXCEPT !.hour = tod[1], !.minute = tod[2], !.second = tod[3]]

Anchors ==
    { [year |-> 1899, month |-> 12, day |-> 25, stamp |-> 0 - 1636736],
      [year |-> 1969, month |-> 12, day |-> 25, stamp |-> 0 - 448],
      [year |-> 1999, month |-> 12, day |-> 25, stamp |-> 700800],
      [year |-> 2023, month |-> 12, day |-> 25, stamp |-> 1261824] }

MaxDays == 400

InitDu ==
    /\ IdleCal
    /\ IdleDeg
    /\ IdleRC
    /\ IdleCli
    /\ IdleRun
    /\ \E a \in Anchors :
          /\ dt = [year |-> a.year, month |-> a.month, day |-> a.day,
                   hour |-> 0, minute |-> 0, second |-> 0]
          /\ ts = a.stamp
    /\ du_now = calcular_du(dt)
    /\ du_prev = du_now
    /\ du_step = "init"
    /\ days_run = 0

\* t + timedelta(days=1), then calcular_du.
AdvanceDay ==
    /\ days_run < MaxDays
    /\ dt' = NextDay(dt)
    /\ ts' = ts + TicksPerDay
    /\ du_prev' = du_now
    /\ du_now' = calcular_du(dt')
    /\ du_step' = "day"
    /\ days_run' = days_run + 1
    /\ UNCHANGED <<calVars, degVars, rcVars, cliVars, runVars>>

\* The next instant of the grid, later the same day, then calcular_du.
AdvanceTime ==
    /\ \E i \in 1..(Len(TimesOfDay) - 1) :
          /\ TodOf(dt) = TimesOfDay[i]
          /\ dt' = WithTod(dt, TimesOfDay[i + 1])
          /\ ts' = ts + TodTicks(TimesOfDay[i + 1]) - TodTicks(TimesOfDay[i])
    /\ du_prev' = du_now
    /\ du_now' = calcular_du(dt')
    /\ du_step' = "time"
    /\ UNCHANGED <<days_run, calVars, degVars, rcVars, cliVars, runVars>>

\* The first instant of the next day, then calcular_du.
AdvanceMidnight ==
    /\ days_run < MaxDays
    /\ TodOf(dt) = TimesOfDay[Len(TimesOfDay)]
    /\ dt' = WithTod(NextDay(dt), TimesOfDay[1])
    /\ ts' = ts + TicksPerDay - TodTicks(TimesOfDay[Len(TimesOfDay)])
                + TodTicks(TimesOfDay[1])
    /\ du_prev' = du_now
    /\ du_now' = calcular_du(dt')
    /\ du_step' = "time"
    /\ days_run' = days_run + 1
    /\ UNCHANGED <<calVars, degVars, rcVars, cliVars, runVars>>

NextDu ==
    \/ AdvanceDay
    \/ AdvanceTime
    \/ AdvanceMidnight

SpecDu == InitDu /\ [][NextDu]_vars

Return(v) == [kind |-> "return", value |-> v, exc |-> "", cause |-> ""]

Raise(e, c) == [kind |-> "raise", value |-> None, exc |-> e, cause |-> c]

\* StellariumRCConfig.timeout_s = 2.5 s, in tenths of a second.
TimeoutTenths == 25

NetOutcomes == {"ok", "timeout", "refused", "http_error"}

NetCause(net) ==
    CASE net = "timeout"    -> "socket.timeout"
      [] net = "refused"    -> "URLError"
      [] net = "http_error" -> "HTTPError"

\* A field of a JSON object: absent, null, a number, or a string.
Missing == [t |-> "missing", n |-> 0, s |-> ""]

JNull == [t |-> "null", n |-> 0, s |-> ""]

JNum(x) == [t |-> "number", n |-> x, s |-> ""]

JStr(x) == [t |-> "string", n |-> 0, s |-> x]

FieldValues == {Missing, JNull, JNum(132), JStr("18"), JStr("abc")}

\* A response body: undecodable bytes, text that is not JSON, or JSON: null,
\* a non-empty array, or an object with its "ra" and "dec" fields.
Body(k, ra, dec) == [kind |-> k, ra |-> ra, dec |-> dec]

NoBody == Body("none", Missing, Missing)

JsonBodies ==
    {Body("null", Missing, Missing), Body("array", Missing, Missing)}
    \cup {Body("object", ra, dec) : ra \in FieldValues, dec \in FieldValues}

Bodies ==
    {Body("bad_utf8", Missing, Missing), Body("not_json", Missing, Missing)}
    \cup JsonBodies

Env(net, body) == [net |-> net, body |-> body]

GetEnvs ==
    {Env(n, NoBody) : n \in NetOutcomes \ {"ok"}}
    \cup {Env("ok", b) : b \in Bodies}

PostEnvs ==
    {Env(n, NoBody) : n \in NetOutcomes \ {"ok"}}
    \cup {Env("ok", Body("not_json", Missing, Missing)),
          Env("ok", Body("object", Missing, Missing))}

Req(method, path, fields) ==
    [method |-> method, path |-> path, fields |-> fields,
     timeout |-> TimeoutTenths]

\* str(v) of the numbers the model sends.
PyStr(n) == IF n = 0 THEN "0" ELSE "1"

(***************************************************************************)
(* StellariumRemoteControlClient._get_json: one urlopen; a transport or     *)
(* decoding error, and then a JSON parsing error, are re-raised as          *)
(* StellariumRCError from the original error.                               *)
(***************************************************************************)
get_json_unwrapped(path, params, env) ==
    [reqs   |-> <<Req("GET", path, params)>>,
     result |-> IF env.net # "ok"
                THEN Raise("StellariumRCError", NetCause(env.net))
                ELSE IF env.body.kind = "bad_utf8"
                THEN Raise("StellariumRCError", "UnicodeDecodeError")
                ELSE IF env.body.kind = "not_json"
                THEN Raise("JSONDecodeError", "")
                ELSE Return(env.body)]

get_json(path, params, env) ==
    [reqs   |-> <<Req("GET", path, params)>>,
     result |-> IF env.net # "ok"
                THEN Raise("StellariumRCError", NetCause(env.net))
                ELSE IF env.body.kind = "bad_utf8"
                THEN Raise("StellariumRCError", "UnicodeDecodeError")
                ELSE IF env.body.kind = "not_json"
                THEN Raise("StellariumRCError", "JSONDecodeError")
                ELSE Return(env.body)]

(***************************************************************************)
(* StellariumRemoteControlClient._post_form: one urlopen; the body is read  *)
(* and dropped; any error is re-raised as StellariumRCError from it.        *)
(***************************************************************************)
post_form_retry(path, data, env) ==
    [reqs   |-> IF env.net # "ok"
                THEN <<Req("POST", path, data), Req("POST", path, data)>>
                ELSE <<Req("POST", path, data)>>,
     result |-> IF env.net # "ok"
                THEN Raise("StellariumRCError", NetCause(env.net))
                ELSE Return(None)]

post_form(path, data, env) ==
    [reqs   |-> <<Req("POST", path, data)>>,
     result |-> IF env.net # "ok"
                THEN Raise("StellariumRCError", NetCause(env.net))
                ELSE Return(None)]

(***************************************************************************)
(* The client's operations.                                                 *)
(***************************************************************************)
status(env) == get_json("/api/main/status", {}, env)

ping(env) ==
    LET st == status(env)
    IN  [reqs   |-> st.reqs,
         result |-> IF st.result.kind = "return" THEN Return(TRUE)
                    ELSE IF st.result.exc = "StellariumRCError"
                    THEN Return(FALSE)
                    ELSE st.result]

\* "if timerate_jd_per_sec:" in place of "is not None": a rate of 0 is dropped.
set_time_jd_truthy(timerate, env) ==
    post_form("/api/main/time",
              {<<"time", "jd">>}
              \cup (IF timerate # None /\ timerate # Some(0)
                    THEN {<<"timerate", PyStr(timerate[1])>>} ELSE {}),
              env)

set_time_jd(timerate, env) ==
    post_form("/api/main/time",
              {<<"time", "jd">>}
              \cup (IF timerate # None
                    THEN {<<"timerate", PyStr(timerate[1])>>} ELSE {}),
              env)

set_location(env) ==
    post_form("/api/location/setlocationfields",
              {<<"latitude", "lat">>, <<"longitude", "lon">>,
               <<"altitude", "0.0">>, <<"name", "name">>,
               <<"country", "country">>, <<"planet", "Earth">>},
              env)

focus(target, env) ==
    post_form("/api/main/focus",
              {<<"target", target>>, <<"mode", "center">>}, env)

object_info(name, env) ==
    get_json("/api/objects/info",
             {<<"format", "json">>, <<"name", name>>}, env)

object_find(query, env) ==
    get_json("/api/objects/find",
             {<<"format", "json">>, <<"str", query>>}, env)

(***************************************************************************)
(* ephemeris_snapshot._float_or_none and fetch_body.                        *)
(* float() of a string parses it ("18" -> 18.0, "abc" -> ValueError).       *)
(* equatorial_to_ecliptic is not computed: ecl records the (ra, dec) it     *)
(* was called with, each an Optional, and is None when it was not called.   *)
(***************************************************************************)
PyFloatOfStr(str) == IF str = "18" THEN Some(18) ELSE None

float_or_none(x) ==
    IF x.t \in {"missing", "null"} THEN None
    ELSE IF x.t = "number" THEN Some(x.n)
    ELSE PyFloatOfStr(x.s)

fetch_body_unchecked(name, env1, env2) ==
    LET f    == focus(name, env1)
        i    == object_info(name, env2)
        info == i.result.value
        ra   == float_or_none(info.ra)
        dec  == float_or_none(info.dec)
    IN  IF f.result.kind = "raise"
        THEN [reqs |-> f.reqs, result |-> f.result, ecl |-> None]
        ELSE IF i.result.kind = "raise"
        THEN [reqs |-> f.reqs \o i.reqs, result |-> i.result, ecl |-> None]
        ELSE IF info.kind = "array"
        THEN [reqs |-> f.reqs \o i.reqs,
              result |-> Raise("AttributeError", ""), ecl |-> None]
        ELSE [reqs |-> f.reqs \o i.reqs,
              result |-> Return([ra_deg |-> ra, dec_deg |-> dec]),
              ecl |-> Some(<<ra, dec>>)]

fetch_body(name, env1, env2) ==
    LET f    == focus(name, env1)
        i    == object_info(name, env2)
        \* info = c.object_info(name) or {}: null reads as the empty object;
        \* a non-empty array has no .get
        info == i.result.value
        ra   == float_or_none(info.ra)
        dec  == float_or_none(info.dec)
    IN  IF f.result.kind = "raise"
        THEN [reqs |-> f.reqs, result |-> f.result, ecl |-> None]
        ELSE IF i.result.kind = "raise"
        THEN [reqs |-> f.reqs \o i.reqs, result |-> i.result, ecl |-> None]
        ELSE IF info.kind = "array"
        THEN [reqs |-> f.reqs \o i.reqs,
              result |-> Raise("AttributeError", ""), ecl |-> None]
        ELSE IF ra = None \/ dec = None
        THEN [reqs |-> f.reqs \o i.reqs,
              result |-> Raise("RuntimeError", ""), ecl |-> None]
        ELSE [reqs |-> f.reqs \o i.reqs,
              result |-> Return([ra_deg |-> ra[1], dec_deg |-> dec[1]]),
              ecl |-> Some(<<ra, dec>>)]

BodyNames == {"Sun", "Moon"}

TimeRates == {None, Some(0), Some(1)}

Called(op, envs, r) ==
    [op |-> op, env |-> envs, reqs |-> r.reqs, result |-> r.result,
     ecl |-> None]

InitRC ==
    /\ IdleCal
    /\ IdleDeg
    /\ IdleDu
    /\ rc_call = NoCall
    /\ IdleCli
    /\ IdleRun

CallStatus ==
    /\ \E env \in GetEnvs : rc_call' = Called("status", <<env>>, status(env))
    /\ UNCHANGED <<calVars, degVars, duVars, cliVars, runVars>>

CallPing ==
    /\ \E env \in GetEnvs : rc_call' = Called("ping", <<env>>, ping(env))
    /\ UNCHANGED <<calVars, degVars, duVars, cliVars, runVars>>

CallSetTimeJd ==
    /\ \E env \in PostEnvs, rate \in TimeRates :
          rc_call' = Called("set_time_jd", <<env>>, set_time_jd(rate, env))
    /\ UNCHANGED <<calVars, degVars, duVars, cliVars, runVars>>

CallSetLocation ==
    /\ \E env \in PostEnvs :
          rc_call' = Called("set_location", <<env>>, set_location(env))
    /\ UNCHANGED <<calVars, degVars, duVars, cliVars, runVars>>

CallFocus ==
    /\ \E env \in PostEnvs, name \in BodyNames :
          rc_call' = Called("focus", <<env>>, focus(name, env))
    /\ UNCHANGED <<calVars, degVars, duVars, cliVars, runVars>>

CallObjectInfo ==
    /\ \E env \in GetEnvs, name \in BodyNames :
          rc_call' = Called("object_info", <<env>>, object_info(name, env))
    /\ UNCHANGED <<calVars, degVars, duVars, cliVars, runVars>>

CallObjectFind ==
    /\ \E env \in GetEnvs :
          rc_call' = Called("object_find", <<env>>, object_find("moon", env))
    /\ UNCHANGED <<calVars, degVars, duVars, cliVars, runVars>>

CallFetchBody ==
    /\ \E env1 \in PostEnvs, env2 \in GetEnvs, name \in BodyNames :
          LET r == fetch_body(name, env1, env2)
          IN  rc_call' = [op |-> "fetch_body", env |-> <<env1, env2>>,
                          reqs |-> r.reqs, result |-> r.result,
                          ecl |-> r.ecl]
    /\ UNCHANGED <<calVars, degVars, duVars, cliVars, runVars>>

NextRC ==
    \/ CallStatus
    \/ CallPing
    \/ CallSetTimeJd
    \/ CallSetLocation
    \/ CallFocus
    \/ CallObjectInfo
    \/ CallObjectFind
    \/ CallFetchBody

SpecRC == InitRC /\ [][NextRC]_vars

ClientOps ==
    {"status", "set_time_jd", "set_location", "focus", "object_info",
     "object_find"}

GetOps == {"status", "object_info", "object_find"}

TransportFailed(env) == env.net # "ok"

\* C8: every client operation issues at most one HTTP request per call,
\* each with the configured timeout; when that request times out or the
\* connection fails the call raises and no second request is made.
C8_SingleAttempt ==
    (rc_call.op \in ClientOps) =>
        /\ Len(rc_call.reqs) <= 1
        /\ \A k \in 1..Len(rc_call.reqs) :
              rc_call.reqs[k].timeout = TimeoutTenths
        /\ TransportFailed(rc_call.env[1]) =>
              /\ rc_call.result.kind = "raise"
              /\ Len(rc_call.reqs) = 1

C8_Witness ==
    /\ rc_call.op = "set_time_jd"
    /\ rc_call.env[1].net = "timeout"
    /\ rc_call.result.kind = "raise"
    /\ Len(rc_call.reqs) = 1

\* The environment of a call lets it succeed: the transport delivers and,
\* for a GET, the body is JSON.
EnvSucceeds(op, env) ==
    /\ env.net = "ok"
    /\ (op \in GetOps \cup {"ping"}) => env.body \in JsonBodies

\* C9: every failure of a client request (unreachable on GET, unreachable on
\* POST, a GET body that is not JSON) reaches the caller as StellariumRCError
\* with the underlying error as its cause; no other exception escapes, and a
\* successful call raises nothing.  ping turns that error into False.
C9_SingleErrorKind ==
    /\ (rc_call.op \in ClientOps) =>
          IF EnvSucceeds(rc_call.op, rc_call.env[1])
          THEN rc_call.result.kind = "return"
          ELSE /\ rc_call.result.kind = "raise"
               /\ rc_call.result.exc = "StellariumRCError"
               /\ rc_call.result.cause =
                     (IF TransportFailed(rc_call.env[1])
                      THEN NetCause(rc_call.env[1].net)
                      ELSE IF rc_call.env[1].body.kind = "bad_utf8"
                      THEN "UnicodeDecodeError" ELSE "JSONDecodeError")
    /\ (rc_call.op = "ping") =>
          rc_call.result = Return(EnvSucceeds("ping", rc_call.env[1]))

C9_Witness ==
    /\ rc_call.op = "object_info"
    /\ rc_call.env[1].net = "ok"
    /\ rc_call.env[1].body.kind = "not_json"
    /\ rc_call.result = Raise("StellariumRCError", "JSONDecodeError")

\* fetch_body got an object-info response, a JSON object (null reads as the
\* empty object), without a usable right ascension or declination.
LacksRaDec ==
    /\ rc_call.op = "fetch_body"
    /\ rc_call.env[1].net = "ok"
    /\ rc_call.env[2].net = "ok"
    /\ rc_call.env[2].body.kind \in {"object", "null"}
    /\ \/ float_or_none(rc_call.env[2].body.ra) = None
       \/ float_or_none(rc_call.env[2].body.dec) = None

\* C10 (as stated): a response without a usable ra or dec makes fetch_body
\* raise the collaborator bad-response kind, the one used for non-parseable
\* responses (StellariumRCError), and nothing missing reaches
\* equatorial_to_ecliptic.
C10_BadResponseKind ==
    LacksRaDec =>
        /\ rc_call.result.kind = "raise"
        /\ rc_call.result.exc = "StellariumRCError"
        /\ rc_call.ecl = None

\* C10 (amended): a response without a usable ra or dec makes fetch_body
\* raise a plain RuntimeError (the base class of StellariumRCError, with no
\* cause), and equatorial_to_ecliptic is only ever called with two numbers.
C10_RuntimeErrorNoEcl ==
    /\ LacksRaDec =>
          /\ rc_call.result = Raise("RuntimeError", "")
          /\ rc_call.ecl = None
    /\ (rc_call.op = "fetch_body" /\ rc_call.ecl # None) =>
          /\ rc_call.ecl[1][1] # None
          /\ rc_call.ecl[1][2] # None

C10_Witness ==
    /\ LacksRaDec
    /\ rc_call.env[2].body.ra = JNum(132)
    /\ rc_call.env[2].body.dec = JStr("abc")
    /\ rc_call.result = Raise("RuntimeError", "")

(***************************************************************************)
(* The tsurphu command line (orchestration/cli.py).                         *)
(*                                                                         *)
(* A text is a sequence of characters.  A value of the result's dict is     *)
(* absent (no such key), None, an int, a text, or an object json.dumps      *)
(* cannot serialize (a set, say).                                           *)
(***************************************************************************)
MaxTextLen == 3

Alphabet == {"W", "w", "D", "d", "1"}

Texts == UNION {[1..n -> Alphabet] : n \in 0..MaxTextLen}

Absent == [t |-> "absent", n |-> 0, s |-> <<>>]

PyNone == [t |-> "none", n |-> 0, s |-> <<>>]

PyInt(x) == [t |-> "int", n |-> x, s |-> <<>>]

PyText(x) == [t |-> "str", n |-> 0, s |-> x]

PyObject == [t |-> "object", n |-> 0, s |-> <<>>]

\* str.lower(), character by character.
PyLowerChar(c) ==
    CASE c = "W" -> "w"
      [] c = "D" -> "d"
      [] OTHER   -> c

PyLower(str) == [k \in 1..Len(str) |-> PyLowerChar(str[k])]

ElementValues == {Absent, PyNone, PyInt(7), PyObject} \cup {PyText(x) : x \in Texts}

AnimalValues == {Absent, PyText(<<"D", "w">>)}

\* The dicts _tibetan_year_to_dict can give: the result's fields, or
\* {"value": str(obj)} for an object without fields.
Dicts ==
    {[element |-> e, animal |-> a, year |-> PyInt(2025), value |-> Absent] :
        e \in ElementValues, a \in AnimalValues}
    \cup {[element |-> Absent, animal |-> Absent, year |-> Absent,
           value |-> PyText(<<"W", "1">>)]}

(***************************************************************************)
(* cli._normalize_tibetan_year_json                                         *)
(***************************************************************************)
normalize_tibetan_year_json_all(data) ==
    [k \in DOMAIN data |->
        IF data[k].t = "str" THEN PyText(PyLower(data[k].s)) ELSE data[k]]

normalize_tibetan_year_json(data) ==
    LET element == data.element
    IN  IF element.t = "str"
        THEN [data EXCEPT !.element = PyText(PyLower(element.s))]
        ELSE data

\* json.dumps(data): a TypeError when a value is not serializable.
JsonSerializable(data) == \A k \in DOMAIN data : data[k].t # "object"

(***************************************************************************)
(* cli.main with cmd_tibetan_year, as the process sees it: the exit status  *)
(* (SystemExit(main()); 2 from argparse's error(); 0 from its help; 1 for   *)
(* an uncaught exception), the number of calls of tibetan_year, and what    *)
(* was printed.  ty is what engines.tibetan_year does for the year: it      *)
(* raises, or returns an object whose dict is ty.data.                      *)
(***************************************************************************)
ArgvKinds ==
    {"empty", "unknown_command", "missing_year", "non_integer_year",
     "unknown_flag", "help", "subcommand_help", "year", "year_json"}

ParseErrors ==
    {"empty", "unknown_command", "missing_year", "non_integer_year",
     "unknown_flag"}

HelpRequests == {"help", "subcommand_help"}

TyOutcomes ==
    {[raises |-> TRUE, data |-> None]}
    \cup {[raises |-> FALSE, data |-> d] : d \in Dicts}

CliRun(argv, ty, computed, exit, out) ==
    [op |-> "main", argv |-> argv, ty |-> ty, computed |-> computed,
     exit |-> exit, out |-> out]

cli_main_swallow(argv, ty) ==
    IF argv \in ParseErrors THEN CliRun(argv, ty, 0, 2, None)
    ELSE IF argv \in HelpRequests THEN CliRun(argv, ty, 0, 0, Some("help"))
    ELSE IF ty.raises THEN CliRun(argv, ty, 1, 0, None)
    ELSE IF argv = "year_json"
    THEN IF JsonSerializable(ty.data)
         THEN CliRun(argv, ty, 1, 0,
                     Some(normalize_tibetan_year_json(ty.data)))
         ELSE CliRun(argv, ty, 1, 0, None)
    ELSE CliRun(argv, ty, 1, 0, Some(ty.data))

cli_main(argv, ty) ==
    IF argv \in ParseErrors THEN CliRun(argv, ty, 0, 2, None)
    ELSE IF argv \in HelpRequests THEN CliRun(argv, ty, 0, 0, Some("help"))
    ELSE IF ty.raises THEN CliRun(argv, ty, 1, 1, None)
    ELSE IF argv = "year_json"
    THEN IF JsonSerializable(ty.data)
         THEN CliRun(argv, ty, 1, 0,
                     Some(normalize_tibetan_year_json(ty.data)))
         ELSE CliRun(argv, ty, 1, 1, None)
    ELSE CliRun(argv, ty, 1, 0, Some(ty.data))

InitCli ==
    /\ IdleCal
    /\ IdleDeg
    /\ IdleDu
    /\ IdleRC
    /\ IdleRun
    /\ cli_call = NoCall
    /\ cli_run = NoCall

\* A direct call of the function, in a process that does not run main.
CallNormalizeJson ==
    /\ cli_run = NoCall
    /\ \E data \in Dicts :
          cli_call' = [op |-> "normalize_tibetan_year_json", arg |-> data,
                       ret |-> normalize_tibetan_year_json(data)]
    /\ UNCHANGED <<cli_run, calVars, degVars, duVars, rcVars, runVars>>

\* One process: main runs once, with its argv.
RunCli ==
    /\ cli_run = NoCall
    /\ cli_call = NoCall
    /\ \E argv \in ArgvKinds, ty \in TyOutcomes :
          cli_run' = cli_main(argv, ty)
    /\ UNCHANGED <<cli_call, calVars, degVars, duVars, rcVars, runVars>>

NextCli ==
    \/ CallNormalizeJson
    \/ RunCli

SpecCli == InitCli /\ [][NextCli]_vars

UpperChars == {"W", "D"}

\* Two texts equal up to the case of their letters.
SameLetters(a, b) ==
    /\ Len(a) = Len(b)
    /\ \A k \in 1..Len(a) :
          \/ a[k] = b[k]
          \/ <<a[k], b[k]>> \in {<<"W", "w">>, <<"w", "W">>,
                                 <<"D", "d">>, <<"d", "D">>}

NoUpper(a) == \A k \in 1..Len(a) : a[k] \notin UpperChars

\* C11: the element text of the serialized Tibetan-year result is lower
\* case whatever case the input had; normalization is idempotent, leaves
\* every other field unchanged and a missing or non-text element untouched.
C11_ElementLowerCase ==
    /\ (cli_call.op = "normalize_tibetan_year_json") =>
          /\ (cli_call.arg.element.t = "str") =>
                /\ cli_call.ret.element.t = "str"
                /\ NoUpper(cli_call.ret.element.s)
                /\ SameLetters(cli_call.ret.element.s, cli_call.arg.element.s)
          /\ (cli_call.arg.element.t # "str") => cli_call.ret = cli_call.arg
          /\ normalize_tibetan_year_json(cli_call.ret) = cli_call.ret
          /\ \A k \in (DOMAIN cli_call.arg) \ {"element"} :
                cli_call.ret[k] = cli_call.arg[k]
          /\ DOMAIN cli_call.ret = DOMAIN cli_call.arg
    /\ (cli_run.op # "none" /\ cli_run.argv = "year_json"
            /\ cli_run.out # None) =>
          /\ (cli_run.out[1].element.t = "str") =>
                NoUpper(cli_run.out[1].element.s)
          /\ cli_run.out[1].animal = cli_run.ty.data.animal

C11_Witness ==
    /\ cli_call.op = "normalize_tibetan_year_json"
    /\ cli_call.arg.element = PyText(<<"W", "d", "D">>)
    /\ cli_call.arg.animal = PyText(<<"D", "w">>)
    /\ cli_call.ret.element = PyText(<<"w", "d", "d">>)
    /\ cli_call.ret.animal = PyText(<<"D", "w">>)

\* The tibetan-year subcommand ran to completion: it was parsed, the
\* computation returned and the result was printed.
Completed ==
    /\ cli_run.argv \in {"year", "year_json"}
    /\ cli_run.computed = 1
    /\ cli_run.out # None

\* C12 (as stated): the command line exits 0 exactly when the tibetan-year
\* subcommand runs to completion; a parse failure or an error during the
\* computation exits non-zero; the computation is attempted at most once.
C12_ExitZeroIffCompleted ==
    (cli_run.op # "none") =>
        /\ (cli_run.exit = 0) <=> Completed
        /\ cli_run.computed <= 1

\* C12 (amended): the command line exits 0 exactly when the subcommand runs
\* to completion or help is requested (-h, which computes nothing); a parse
\* failure or an error during the computation exits non-zero; the
\* computation is attempted at most once.
C12_ExitZeroIffCompletedOrHelp ==
    (cli_run.op # "none") =>
        /\ (cli_run.exit = 0) <=>
              (Completed \/ cli_run.argv \in HelpRequests)
        /\ (cli_run.argv \in ParseErrors) =>
              (cli_run.exit # 0 /\ cli_run.computed = 0)
        /\ (cli_run.argv \in HelpRequests) => cli_run.computed = 0
        /\ (cli_run.argv \in {"year", "year_json"} /\ cli_run.ty.raises) =>
              (cli_run.exit # 0 /\ cli_run.out = None)
        /\ cli_run.computed <= 1

C12_Witness ==
    /\ cli_run.op # "none"
    /\ cli_run.argv = "year_json"
    /\ cli_run.ty.raises = FALSE
    /\ cli_run.ty.data.element = PyObject
    /\ cli_run.computed = 1
    /\ cli_run.exit = 1

(***************************************************************************)
(* ephemeris_snapshot.main, one step per statement that can fail: parsing   *)
(* the arguments, set_location, set_time_jd(jd, 0), status, the two         *)
(* fetch_body calls, and building and printing the output.  An exception    *)
(* leaves main (nothing catches it): run_pc becomes "failed".               *)
(* equatorial_to_ecliptic is not computed: the two ecliptic longitudes of   *)
(* the output are any floats of EclLons.                                    *)
(***************************************************************************)
EclLons == {0, 12, 180}

InitRun ==
    /\ IdleCal
    /\ IdleDeg
    /\ IdleDu
    /\ IdleRC
    /\ IdleCli
    /\ run_pc = "idle"
    /\ run_log = <<>>
    /\ run_status = None
    /\ run_sun = None
    /\ run_moon = None
    /\ run_out = None

Goto(r, next) == IF r.result.kind = "raise" THEN "failed" ELSE next

\* ap.parse_args(), datetime.fromisoformat(args.dt), jd_from_datetime(dt), C()
RunParse ==
    /\ run_pc = "idle"
    /\ \E ok \in BOOLEAN : run_pc' = IF ok THEN "location" ELSE "failed"
    /\ UNCHANGED <<run_log, run_status, run_sun, run_moon, run_out,
                   calVars, degVars, duVars, rcVars, cliVars>>

RunSetLocation ==
    /\ run_pc = "location"
    /\ \E env \in PostEnvs :
          LET r == set_location(env)
          IN  /\ run_log' = run_log \o r.reqs
              /\ run_pc' = Goto(r, "time")
    /\ UNCHANGED <<run_status, run_sun, run_moon, run_out,
                   calVars, degVars, duVars, rcVars, cliVars>>

RunSetTime ==
    /\ run_pc = "time"
    /\ \E env \in PostEnvs :
          LET r == set_time_jd(Some(0), env)
          IN  /\ run_log' = run_log \o r.reqs
              /\ run_pc' = Goto(r, "status")
    /\ UNCHANGED <<run_status, run_sun, run_moon, run_out,
                   calVars, degVars, duVars, rcVars, cliVars>>

RunStatus ==
    /\ run_pc = "status"
    /\ \E env \in GetEnvs :
          LET r == status(env)
          IN  /\ run_log' = run_log \o r.reqs
              /\ run_pc' = Goto(r, "sun")
              /\ run_status' = IF r.result.kind = "raise" THEN None
                               ELSE Some(r.result.value)
    /\ UNCHANGED <<run_sun, run_moon, run_out,
                   calVars, degVars, duVars, rcVars, cliVars>>

RunFetchSun ==
    /\ run_pc = "sun"
    /\ \E env1 \in PostEnvs, env2 \in GetEnvs :
          LET r == fetch_body("Sun", env1, env2)
          IN  /\ run_log' = run_log \o r.reqs
              /\ run_pc' = Goto(r, "moon")
              /\ run_sun' = IF r.result.kind = "raise" THEN None
                            ELSE Some(r.result.value)
    /\ UNCHANGED <<run_status, run_moon, run_out,
                   calVars, degVars, duVars, rcVars, cliVars>>

RunFetchMoon ==
    /\ run_pc = "moon"
    /\ \E env1 \in PostEnvs, env2 \in GetEnvs :
          LET r == fetch_body("Moon", env1, env2)
          IN  /\ run_log' = run_log \o r.reqs
              /\ run_pc' = Goto(r, "output")
              /\ run_moon' = IF r.result.kind = "raise" THEN None
                             ELSE Some(r.result.value)
    /\ UNCHANGED <<run_status, run_sun, run_out,
                   calVars, degVars, duVars, rcVars, cliVars>>

\* compute_tithi, then out = {...}: status.get("time") raises AttributeError
\* when the status response was a non-empty JSON array; then print.
RunOutput ==
    /\ run_pc = "output"
    /\ \E moon_lon \in EclLons, sun_lon \in EclLons :
          IF run_status[1].kind = "array"
          THEN /\ run_pc' = "failed"
               /\ run_out' = None
          ELSE /\ run_pc' = "done"
               /\ run_out' = Some([sun   |-> run_sun[1],
                                   moon  |-> run_moon[1],
                                   tithi |-> compute_tithi(moon_lon, sun_lon)])
    /\ UNCHANGED <<run_log, run_status, run_sun, run_moon,
                   calVars, degVars, duVars, rcVars, cliVars>>

NextRun ==
    \/ RunParse
    \/ RunSetLocation
    \/ RunSetTime
    \/ RunStatus
    \/ RunFetchSun
    \/ RunFetchMoon
    \/ RunOutput

SpecRun == InitRun /\ [][NextRun]_vars

\* The requests of a complete run, written out.
ExpectedLog ==
    << [method |-> "POST", path |-> "/api/location/setlocationfields",
        fields |-> {<<"latitude", "lat">>, <<"longitude", "lon">>,
                    <<"altitude", "0.0">>, <<"name", "name">>,
                    <<"country", "country">>, <<"planet", "Earth">>},
        timeout |-> 25],
       [method |-> "POST", path |-> "/api/main/time",
        fields |-> {<<"time", "jd">>, <<"timerate", "0">>}, timeout |-> 25],
       [method |-> "GET", path |-> "/api/main/status",
        fields |-> {}, timeout |-> 25],
       [method |-> "POST", path |-> "/api/main/focus",
        fields |-> {<<"target", "Sun">>, <<"mode", "center">>},
        timeout |-> 25],
       [method |-> "GET", path |-> "/api/objects/info",
        fields |-> {<<"format", "json">>, <<"name", "Sun">>}, timeout |-> 25],
       [method |-> "POST", path |-> "/api/main/focus",
        fields |-> {<<"target", "Moon">>, <<"mode", "center">>},
        timeout |-> 25],
       [method |-> "GET", path |-> "/api/objects/info",
        fields |-> {<<"format", "json">>, <<"name", "Moon">>},
        timeout |-> 25] >>

\* The number of requests issued when main is at a position.
SentAt(pc) ==
    CASE pc \in {"idle", "location"} -> 0
      [] pc = "time"                 -> 1
      [] pc = "status"               -> 2
      [] pc = "sun"                  -> 3
      [] pc = "moon"                 -> 5
      [] pc \in {"output", "done"}   -> 7

IsPrefix(a, b) == Len(a) <= Len(b) /\ a = SubSeq(b, 1, Len(a))

\* C13: the requests of a run are issued in the fixed order set location,
\* set time with time-rate 0, status, focus and object info for the Sun,
\* focus and object info for the Moon; no position is queried before
\* location and frozen time are set; a failure aborts the run: nothing is
\* sent after it and no tithi or output is produced.
C13_FixedOrderAbortOnFailure ==
    /\ IsPrefix(run_log, ExpectedLog)
    /\ (run_pc # "failed") => Len(run_log) = SentAt(run_pc)
    /\ \A k \in 1..Len(run_log) :
          (run_log[k].path = "/api/objects/info") =>
              /\ k > 2
              /\ run_log[1].path = "/api/location/setlocationfields"
              /\ run_log[2].path = "/api/main/time"
              /\ <<"timerate", "0">> \in run_log[2].fields
              /\ run_log[k - 1].path = "/api/main/focus"
              /\ \E n \in BodyNames :
                    /\ <<"target", n>> \in run_log[k - 1].fields
                    /\ <<"name", n>> \in run_log[k].fields
    /\ (run_pc = "failed") => run_out = None
    /\ (run_out # None) =>
          /\ run_pc = "done"
          /\ run_log = ExpectedLog
          /\ run_sun # None /\ run_moon # None
    /\ (run_pc = "failed") => ~ ENABLED NextRun

\* The Moon's focus request failed after five good requests: six requests
\* were sent, the Moon's position was never asked for, nothing was printed.
C13_Witness ==
    /\ run_pc = "failed"
    /\ Len(run_log) = 6
    /\ run_log[6].path = "/api/main/focus"
    /\ run_sun # None
    /\ run_moon = None
    /\ run_out = None

=============================================================================
